---- MODULE Spec2Model ----
(***************************************************************************)
(* nunif: the waifu2x command line pipeline (waifu2x/cli.py) and the model *)
(* descriptor base classes (nunif/models/model.py).                        *)
(*                                                                         *)
(* Strings that the code takes apart (paths, extensions) are sequences of  *)
(* one-character strings, so that basename, splitext, lower and join are   *)
(* computed the way os.path and str compute them.                          *)
(***************************************************************************)
EXTENDS Integers, Sequences, FiniteSets, TLC

\* ------------------------------------------------------------- bounds
MaxFiles == 3
MaxRows == 2
MaxCpu == 4
BigBatch == 129
MaxRegs == 1
MaxConfigs == 1
MaxWrites == 1

\* Mutant of max_queue_size: the argument is not passed and the loader's
\* larger default applies.
max_queue_size_default == 2 * 128

\* ImageLoader(files=files, max_queue_size=128, ...)
max_queue_size == 128

\* ------------------------------------------------------------ strings
Max(S) == CHOOSE m \in S : \A k \in S : k <= m

\* Index of the last occurrence of character c in s, 0 when there is none.
LastIndexOf(s, c) == Max({0} \cup {k \in 1..Len(s) : s[k] = c})

\* os.path.basename: what follows the last "/".
basename(p) == SubSeq(p, LastIndexOf(p, "/") + 1, Len(p))

\* Where os.path.splitext cuts p: the last "." if it comes after the last "/"
\* and is preceded, in the file name, by a character that is not a ".";
\* Len(p) + 1 (no extension) otherwise.
SplitAt(p) ==
    LET sep == LastIndexOf(p, "/")
        dot == LastIndexOf(p, ".")
    IN  IF dot > sep /\ \E k \in (sep + 1)..(dot - 1) : p[k] # "."
        THEN dot
        ELSE Len(p) + 1

\* os.path.splitext(p) as <<root, ext>>; ext keeps its leading ".".
splitext(p) == << SubSeq(p, 1, SplitAt(p) - 1), SubSeq(p, SplitAt(p), Len(p)) >>

LowerChar(c) ==
    CASE c = "P" -> "p" [] c = "N" -> "n" [] c = "G" -> "g"
      [] c = "T" -> "t" [] c = "X" -> "x"
      [] OTHER -> c

\* str.lower
lower(s) == [k \in 1..Len(s) |-> LowerChar(s[k])]

\* os.path.join(a, b)
join(a, b) ==
    IF Len(b) > 0 /\ b[1] = "/" THEN b
    ELSE IF Len(a) = 0 \/ a[Len(a)] = "/" THEN a \o b
    ELSE a \o <<"/">> \o b

\* The extension nunif.utils.filename.set_image_ext gives each output format.
FormatExt(format) ==
    CASE format = "png" -> <<".", "p", "n", "g">>
      [] format = "webp" -> <<".", "w", "e", "b", "p">>
      [] format = "jpeg" -> <<".", "j", "p", "g">>

\* set_image_ext(filename, format): the extension of filename replaced.
set_image_ext(filename, format) == splitext(filename)[1] \o FormatExt(format)

\* ------------------------------------------------------------- inputs
P_l_txt == <<"l", ".", "t", "x", "t">>
P_l_csv == <<"l", ".", "c", "s", "v">>
P_l_TXT == <<"l", ".", "T", "X", "T">>
P_x_png == <<"x", ".", "p", "n", "g">>
P_a == <<"a">>
P_d_txt == <<"d", ".", "t", "x", "t">>
P_big == <<"b", "i", "g">>
P_o == <<"o">>

N_x_png == <<"x", ".", "p", "n", "g">>
N_x_jpg == <<"x", ".", "j", "p", "g">>
N_y_png == <<"y", ".", "p", "n", "g">>

Digit == <<"0", "1", "2", "3", "4", "5", "6", "7", "8", "9">>
\* The i-th entry of the big directory: three digits and ".png".
BigName(i) == << Digit[(i \div 100) + 1], Digit[((i \div 10) % 10) + 1],
                 Digit[(i % 10) + 1], ".", "p", "n", "g" >>

\* The image paths on the disk. The state names a path by its number here.
SmallPaths == << join(P_a, N_x_png), join(P_a, N_x_jpg), join(P_a, N_y_png),
                 join(<<"b">>, N_x_png),
                 join(P_d_txt, N_x_png), join(P_d_txt, N_x_jpg),
                 join(P_d_txt, N_y_png) >>
Path(id) == IF id <= Len(SmallPaths) THEN SmallPaths[id]
            ELSE join(P_big, BigName(id - Len(SmallPaths)))

\* Paths a list file may name, and the entries of the two small directories.
ListPaths == 1..4
DirEntries(d) == IF d = P_a THEN 1..3 ELSE 5..7

\* A row of a list file as csv.reader yields it: no column (an empty line),
\* one column, or two.
Rows == {<< >>} \cup {<<p>> : p \in ListPaths} \cup {<<3, 4>>}

OutputFiles == {<<"o", ".", "p", "n", "g">>, <<"o", ".", "P", "N", "G">>,
                <<"o", ".", "j", "p", "g">>, <<"o", ".", "b", "m", "p">>,
                <<"o">>, <<".", "p", "n", "g">>}

Formats == {"png", "webp", "jpeg"}

SeqsUpTo(S, n) == UNION {[1..k -> S] : k \in 0..n}
Injective(s) == \A i, j \in 1..Len(s) : i # j => s[i] # s[j]

\* ---------------------------------------------------------- variables
VARIABLES
    args,           \* [input, output, format]: the parsed arguments main reads
    isdir,          \* path.isdir(args.input)
    listing,        \* ImageLoader.listdir(args.input), when a directory
    rows,           \* the rows csv.reader yields for args.input, when a list
    max_workers,    \* cpu_count() // 2 or 1
    unreliable,     \* the stages that can fail on this machine
    pc,             \* where the main thread is
    model_loads,    \* number of ctx.load_model calls made
    calls,          \* convert_files / convert_file calls made by main
    loads,          \* number of IL.load_image calls made
    queue,          \* the loader's queue: indices (into Files) of decoded images
    decode_failed,  \* files the loader failed to decode, as it reported them
    cur,            \* the image the main thread holds (0: none)
    convert_calls,  \* files ctx.convert was called for, in call order
    futures,        \* the save tasks submitted to the pool: the file of each
    started,        \* number of tasks the pool's threads have taken, oldest first
    running,        \* the tasks a pool thread is running
    failed,         \* the finished tasks whose save_image raised
    k,              \* position of "for f in futures: f.result()"
    exc,            \* the exception propagating out of the main thread
    saved,          \* convert_file wrote args.output
    heap,           \* model.py: the dicts of the model and of its callers
    regs,           \* model.py: register_kwargs calls made (construction included)
    last,           \* model.py: name -> value of its most recent registration
    built,          \* model.py: the constructor's arguments
    held,           \* model.py: the dicts the caller holds a reference to
    kw_written,     \* model.py: a caller wrote through get_kwargs()'s result
    nwrites,        \* model.py: caller writes made
    y               \* model.py: the model rebuilt from x's description

pipe_vars == << args, isdir, listing, rows, max_workers, unreliable, pc,
                model_loads, calls, loads, queue, decode_failed, cur,
                convert_calls, futures, started, running, failed, k, exc, saved >>
pool_vars == << started, running, failed >>
model_vars == << heap, regs, last, built, held, kw_written, nwrites, y >>
vars == << pipe_vars, model_vars >>

NoExc == [type |-> "none", file |-> 0]

\* What a stage can do: succeed, or also fail where the machine is unreliable.
Outcomes(stage) == IF stage \in unreliable THEN BOOLEAN ELSE {TRUE}

\* cpu_count() // 2 or 1
PoolSize(cpu) == IF cpu \div 2 = 0 THEN 1 ELSE cpu \div 2

\* ------------------------------------------------------- model.py idle
\* The state of the model.py objects before any model is built.
ModelIdle ==
    /\ heap = << >>
    /\ regs = 0
    /\ last = << >>
    /\ built = << >>
    /\ held = {}
    /\ kw_written = FALSE
    /\ nwrites = 0
    /\ y = << >>

\* ---------------------------------------------------------------- cli
\* The state main(args) starts in, the command line and the disk given.
PipeStart ==
    /\ pc = "main"
    /\ model_loads = 0
    /\ calls = << >>
    /\ loads = 0
    /\ queue = << >>
    /\ decode_failed = {}
    /\ cur = 0
    /\ convert_calls = << >>
    /\ futures = << >>
    /\ started = 0
    /\ running = {}
    /\ failed = {}
    /\ k = 0
    /\ exc = NoExc
    /\ saved = FALSE

\* --input names a directory.
InitDir ==
    /\ isdir = TRUE
    /\ \E d \in {P_a, P_d_txt}, f \in Formats :
         /\ args = [input |-> d, output |-> P_o, format |-> f]
         /\ listing \in {l \in SeqsUpTo(DirEntries(d), MaxFiles) : Injective(l)}
    /\ rows = << >>

\* --input names a list file.
InitList ==
    /\ isdir = FALSE
    /\ \E l \in {P_l_txt, P_l_csv}, f \in Formats :
         args = [input |-> l, output |-> P_o, format |-> f]
    /\ listing = << >>
    /\ rows \in SeqsUpTo(Rows, MaxRows)

\* --input names anything else: one image.
InitSingle ==
    /\ isdir = FALSE
    /\ \E i \in {P_x_png, P_l_TXT}, o \in OutputFiles :
         args = [input |-> i, output |-> o, format |-> "png"]
    /\ listing = << >>
    /\ rows = << >>

Init ==
    /\ \E cpu \in 1..MaxCpu : max_workers = PoolSize(cpu)
    /\ unreliable = {"decode", "infer", "save"}
    /\ (InitDir \/ InitList \/ InitSingle)
    /\ PipeStart
    /\ ModelIdle

\* A directory of BigBatch images, more than the loader's queue holds, on a
\* machine where no stage fails.
InitBackpressure ==
    /\ max_workers = PoolSize(1)
    /\ unreliable = {}
    /\ isdir = TRUE
    /\ args = [input |-> P_big, output |-> P_o, format |-> "png"]
    /\ listing = [i \in 1..BigBatch |-> Len(SmallPaths) + i]
    /\ rows = << >>
    /\ PipeStart
    /\ ModelIdle

\* load_files(txt): the first column of every row; row[0] raises IndexError
\* on a row without columns.
load_files_raises(r) == \E i \in 1..Len(r) : Len(r[i]) = 0
load_files(r) == [i \in 1..Len(r) |-> r[i][1]]

\* The list main passes to convert_files: ImageLoader.listdir(args.input) or
\* load_files(args.input) (lines 109, 112).
Files == IF isdir THEN listing ELSE load_files(rows)

\* The loader of convert_files exists.
InBatch == \E i \in 1..Len(calls) : calls[i] = "convert_files"

\* path.join(args.output, set_image_ext(path.basename(meta["filename"]), format))
OutputFilename(i) ==
    join(args.output, set_image_ext(basename(Path(Files[i])), args.format))

\* The state of the t-th Future: the pool's threads take the tasks in the
\* order of submission.
TaskState(t) ==
    IF t > started THEN "pending"
    ELSE IF t \in running THEN "running"
    ELSE IF t \in failed THEN "error"
    ELSE "done"
Finished(t) == t <= started /\ t \notin running
AllFinished == started = Len(futures) /\ running = {}

\* The output files written so far: by the finished save tasks, or by
\* convert_file.
Written ==
    {OutputFilename(futures[t]) : t \in {u \in 1..Len(futures) : TaskState(u) = "done"}}
        \cup (IF saved THEN {args.output} ELSE {})


\* main, lines 95-106: the model directory is chosen and the model loaded.
MainLoadModel ==
    /\ pc = "main"
    /\ model_loads' = model_loads + 1
    /\ pc' = "select"
    /\ UNCHANGED << args, isdir, listing, rows, max_workers, unreliable, calls,
                    loads, queue, decode_failed, cur, convert_calls,
                    futures, k, exc, saved, pool_vars, model_vars >>

\* convert_files, lines 35-40: the loader, the output directory, the pool.
EnterConvertFiles ==
    /\ calls' = Append(calls, "convert_files")
    /\ pc' = "loop"
    /\ exc' = exc

\* main, lines 108-114: the input mode is selected and the conversion called.
MainSelect ==
    /\ pc = "select"
    /\ IF isdir
       THEN EnterConvertFiles
       ELSE IF splitext(args.input)[2] \in {<<".", "t", "x", "t">>, <<".", "c", "s", "v">>}
       THEN IF load_files_raises(rows)
            THEN /\ exc' = [type |-> "IndexError", file |-> 0]
                 /\ pc' = "raised"
                 /\ UNCHANGED calls
            ELSE EnterConvertFiles
       ELSE /\ calls' = Append(calls, "convert_file")
            /\ pc' = "cf_check"
            /\ UNCHANGED exc
    /\ UNCHANGED << args, isdir, listing, rows, max_workers, unreliable,
                    model_loads, loads, queue, decode_failed, cur,
                    convert_calls, futures, k, saved, pool_vars, model_vars >>

\* The loader's thread: the next file is decoded and put on the queue; put
\* blocks while the queue is full; a file that fails to decode is reported
\* and skipped.
Load ==
    /\ InBatch
    /\ loads < Len(Files)
    /\ Len(queue) < max_queue_size
    /\ loads' = loads + 1
    /\ \E ok \in Outcomes("decode") :
         IF ok
         THEN /\ queue' = Append(queue, loads + 1)
              /\ UNCHANGED decode_failed
         ELSE /\ decode_failed' = decode_failed \cup {loads + 1}
              /\ UNCHANGED queue
    /\ UNCHANGED << args, isdir, listing, rows, max_workers, unreliable, pc,
                    model_loads, calls, cur, convert_calls, futures, k,
                    exc, saved, pool_vars, model_vars >>

\* convert_files, lines 41-46: the loop takes the loader's next image and
\* calls ctx.convert on it; the loop ends when the loader is exhausted.
LoopNext ==
    /\ pc = "loop"
    /\ IF queue # << >>
       THEN /\ cur' = Head(queue)
            /\ queue' = Tail(queue)
            /\ convert_calls' = Append(convert_calls, Head(queue))
            /\ pc' = "convert"
            /\ UNCHANGED k
       ELSE /\ loads = Len(Files)
            /\ pc' = "join"
            /\ k' = 1
            /\ UNCHANGED << cur, queue, convert_calls >>
    /\ UNCHANGED << args, isdir, listing, rows, max_workers, unreliable,
                    model_loads, calls, loads, decode_failed, futures,
                    exc, saved, pool_vars, model_vars >>

\* Mutant of ConvertEnd: the save task is submitted twice.
ConvertEndSubmitTwice ==
    /\ pc = "convert"
    /\ futures' = Append(Append(futures, cur), cur)
    /\ pc' = "loop"
    /\ cur' = 0
    /\ UNCHANGED << args, isdir, listing, rows, max_workers, unreliable,
                    model_loads, calls, loads, queue, decode_failed,
                    convert_calls, k, exc, saved, pool_vars, model_vars >>

\* convert_files, lines 43-58: ctx.convert returns and the save task is
\* submitted, or ctx.convert raises and the exception leaves the loop.
ConvertEnd ==
    /\ pc = "convert"
    /\ \E ok \in Outcomes("infer") :
         IF ok
         THEN /\ futures' = Append(futures, cur)
              /\ pc' = "loop"
              /\ UNCHANGED exc
         ELSE /\ exc' = [type |-> "infer", file |-> cur]
              /\ pc' = "exit"
              /\ UNCHANGED futures
    /\ cur' = 0
    /\ UNCHANGED << args, isdir, listing, rows, max_workers, unreliable,
                    model_loads, calls, loads, queue, decode_failed,
                    convert_calls, k, saved, pool_vars, model_vars >>

\* Mutant of JoinResult: the futures are joined outside the with block, so an
\* exception of f.result() leaves convert_files without waiting for the pool.
JoinResultAbort ==
    /\ pc = "join"
    /\ IF k > Len(futures)
       THEN /\ pc' = "exit"
            /\ UNCHANGED << k, exc >>
       ELSE /\ Finished(k)
            /\ IF k \notin failed
               THEN /\ k' = k + 1
                    /\ UNCHANGED << pc, exc >>
               ELSE /\ exc' = [type |-> "save", file |-> futures[k]]
                    /\ pc' = "raised"
                    /\ UNCHANGED k
    /\ UNCHANGED << args, isdir, listing, rows, max_workers, unreliable,
                    model_loads, calls, loads, queue, decode_failed, cur,
                    convert_calls, futures, saved, pool_vars, model_vars >>

\* convert_files, lines 59-60: f.result() waits for the task and raises its
\* exception; after the last future the with block is left.
JoinResult ==
    /\ pc = "join"
    /\ IF k > Len(futures)
       THEN /\ pc' = "exit"
            /\ UNCHANGED << k, exc >>
       ELSE /\ Finished(k)
            /\ IF k \notin failed
               THEN /\ k' = k + 1
                    /\ UNCHANGED << pc, exc >>
               ELSE /\ exc' = [type |-> "save", file |-> futures[k]]
                    /\ pc' = "exit"
                    /\ UNCHANGED k
    /\ UNCHANGED << args, isdir, listing, rows, max_workers, unreliable,
                    model_loads, calls, loads, queue, decode_failed, cur,
                    convert_calls, futures, saved, pool_vars, model_vars >>

\* Mutant of PoolExit: the pool is shut down without waiting for its tasks.
PoolExitNoWait ==
    /\ pc = "exit"
    /\ pc' = IF exc = NoExc THEN "done" ELSE "raised"
    /\ UNCHANGED << args, isdir, listing, rows, max_workers, unreliable,
                    model_loads, calls, loads, queue, decode_failed, cur,
                    convert_calls, futures, k, exc, saved, pool_vars, model_vars >>

\* convert_files, line 40: leaving the with block, normally or by an
\* exception, PoolExecutor.__exit__ waits for every submitted task.
PoolExit ==
    /\ pc = "exit"
    /\ AllFinished
    /\ pc' = IF exc = NoExc THEN "done" ELSE "raised"
    /\ UNCHANGED << args, isdir, listing, rows, max_workers, unreliable,
                    model_loads, calls, loads, queue, decode_failed, cur,
                    convert_calls, futures, k, exc, saved, pool_vars, model_vars >>

\* A pool thread takes the oldest waiting task (lines 40, 53).
TaskStart ==
    /\ started < Len(futures)
    /\ Cardinality(running) < max_workers
    /\ started' = started + 1
    /\ running' = running \cup {started + 1}
    /\ UNCHANGED << args, isdir, listing, rows, max_workers, unreliable, pc,
                    model_loads, calls, loads, queue, decode_failed, cur,
                    convert_calls, futures, failed, k, exc, saved, model_vars >>

\* IL.save_image of a running task returns or raises (lines 53-58).
TaskEnd ==
    /\ \E t \in running, ok \in Outcomes("save") :
         /\ running' = running \ {t}
         /\ failed' = IF ok THEN failed ELSE failed \cup {t}
    /\ UNCHANGED << args, isdir, listing, rows, max_workers, unreliable, pc,
                    model_loads, calls, loads, queue, decode_failed, cur,
                    convert_calls, futures, started, k, exc, saved, model_vars >>

\* convert_file, lines 64-67: the output extension is checked.
CfCheck ==
    /\ pc = "cf_check"
    /\ LET ext == splitext(args.output)[2]
           fmt == SubSeq(lower(ext), 2, Len(ext))
       IN  IF fmt \notin {<<"p", "n", "g">>, <<"w", "e", "b", "p">>,
                         <<"j", "p", "e", "g">>, <<"j", "p", "g">>}
           THEN /\ exc' = [type |-> "ValueError", file |-> 0]
                /\ pc' = "raised"
           ELSE /\ pc' = "cf_load"
                /\ UNCHANGED exc
    /\ UNCHANGED << args, isdir, listing, rows, max_workers, unreliable,
                    model_loads, calls, loads, queue, decode_failed, cur,
                    convert_calls, futures, k, saved, pool_vars, model_vars >>

\* convert_file, line 70: the image is decoded.
CfLoad ==
    /\ pc = "cf_load"
    /\ loads' = loads + 1
    /\ \E ok \in Outcomes("decode") :
         IF ok
         THEN /\ pc' = "cf_convert"
              /\ cur' = 1
              /\ convert_calls' = Append(convert_calls, 1)
              /\ UNCHANGED exc
         ELSE /\ exc' = [type |-> "decode", file |-> 1]
              /\ pc' = "raised"
              /\ UNCHANGED << cur, convert_calls >>
    /\ UNCHANGED << args, isdir, listing, rows, max_workers, unreliable,
                    model_loads, calls, queue, decode_failed, futures, k,
                    saved, pool_vars, model_vars >>

\* convert_file, lines 71-74: ctx.convert returns or raises.
CfConvert ==
    /\ pc = "cf_convert"
    /\ \E ok \in Outcomes("infer") :
         IF ok
         THEN /\ pc' = "cf_save"
              /\ UNCHANGED exc
         ELSE /\ exc' = [type |-> "infer", file |-> 1]
              /\ pc' = "raised"
    /\ UNCHANGED << args, isdir, listing, rows, max_workers, unreliable,
                    model_loads, calls, loads, queue, decode_failed, cur,
                    convert_calls, futures, k, saved, pool_vars, model_vars >>

\* convert_file, lines 75-82: the image is written to args.output.
CfSave ==
    /\ pc = "cf_save"
    /\ \E ok \in Outcomes("save") :
         IF ok
         THEN /\ saved' = TRUE
              /\ pc' = "done"
              /\ UNCHANGED exc
         ELSE /\ exc' = [type |-> "save", file |-> 1]
              /\ pc' = "raised"
              /\ UNCHANGED saved
    /\ cur' = 0
    /\ UNCHANGED << args, isdir, listing, rows, max_workers, unreliable,
                    model_loads, calls, loads, queue, decode_failed,
                    convert_calls, futures, k, pool_vars, model_vars >>

Next ==
    \/ MainLoadModel
    \/ MainSelect
    \/ Load
    \/ LoopNext
    \/ ConvertEnd
    \/ JoinResult
    \/ PoolExit
    \/ TaskStart
    \/ TaskEnd
    \/ CfCheck
    \/ CfLoad
    \/ CfConvert
    \/ CfSave

Spec == Init /\ [][Next]_vars

\* The batch pipeline alone, on the big directory.
NextBatch ==
    \/ MainLoadModel
    \/ MainSelect
    \/ Load
    \/ LoopNext
    \/ ConvertEnd
    \/ JoinResult
    \/ PoolExit
    \/ TaskStart
    \/ TaskEnd

SpecBackpressure == InitBackpressure /\ [][NextBatch]_vars

\* ----------------------------------------------------------- model.py
\* A dict is a function from its keys. The dicts live in the heap, named by
\* a reference: 0 is x.kwargs, 1 holds x's attributes i2i_scale and
\* i2i_offset, 2 and up are the dicts get_config returned.
Names == {"self", "in_channels", "scale"}
Values == {1, 2}
Scales == {1, 2}
Offsets == {0, 1}
WriteKeys == {"self", "i2i_scale"}
EmptyDict == [n \in {} |-> 0]
Dicts(K) == UNION {[D -> Values] : D \in SUBSET K}

\* dict.update: the keys of u set in d.
DictUpdate(d, u) ==
    [n \in DOMAIN d \cup DOMAIN u |-> IF n \in DOMAIN u THEN u[n] ELSE d[n]]

\* Mutant of register_kwargs: "self" is not filtered out.
register_kwargs_keeps_self(self_kwargs, kwargs) == DictUpdate(self_kwargs, kwargs)

\* Model.register_kwargs: every item but "self" is stored in self.kwargs.
register_kwargs(self_kwargs, kwargs) ==
    LET kept == {n \in DOMAIN kwargs : n \notin {"self"}}
    IN  [n \in DOMAIN self_kwargs \cup kept |->
            IF n \in kept THEN kwargs[n] ELSE self_kwargs[n]]

\* Model.__init__: self.kwargs = {} and register_kwargs(kwargs).
Model_init(kwargs) == register_kwargs(EmptyDict, kwargs)

\* I2IBaseModel.__init__: the dicts of the new model.
I2I_init(kwargs, scale, offset) ==
    [kwargs |-> Model_init(kwargs),
     attrs |-> [i2i_scale |-> scale, i2i_offset |-> offset]]

\* Model.get_config
Model_get_config == EmptyDict

\* I2IBaseModel.get_config: a copy of the parent's config, updated.
I2I_get_config(attrs) ==
    LET config == Model_get_config
    IN  DictUpdate(config, [i2i_scale |-> attrs.i2i_scale,
                            i2i_offset |-> attrs.i2i_offset])

\* The pipeline before main is called: nothing of it moves while the model
\* objects are exercised.
PipeIdle ==
    /\ args = [input |-> P_x_png, output |-> P_o, format |-> "png"]
    /\ isdir = FALSE
    /\ listing = << >>
    /\ rows = << >>
    /\ max_workers = 1
    /\ unreliable = {}
    /\ PipeStart

\* x = I2IBaseModel(kwargs, scale, offset) has been constructed.
InitModel ==
    /\ \E kw \in Dicts(Names), s \in Scales, o \in Offsets :
         /\ heap = (0 :> I2I_init(kw, s, o).kwargs) @@ (1 :> I2I_init(kw, s, o).attrs)
         /\ last = kw
         /\ built = [kwargs |-> kw, scale |-> s, offset |-> o]
    /\ regs = 1
    /\ held = {}
    /\ kw_written = FALSE
    /\ nwrites = 0
    /\ y = << >>
    /\ PipeIdle

\* x.register_kwargs(m)
RegisterKwargs ==
    /\ regs <= MaxRegs
    /\ \E m \in Dicts(Names) :
         /\ heap' = [heap EXCEPT ![0] = register_kwargs(heap[0], m)]
         /\ last' = DictUpdate(last, m)
    /\ regs' = regs + 1
    /\ UNCHANGED << built, held, kw_written, nwrites, y, pipe_vars >>

\* x.get_kwargs(): the caller gets self.kwargs itself.
GetKwargs ==
    /\ 0 \notin held
    /\ held' = held \cup {0}
    /\ UNCHANGED << heap, regs, last, built, kw_written, nwrites, y, pipe_vars >>

\* Mutant of GetConfig: the caller gets the dict that holds the attributes.
GetConfigShared ==
    /\ 1 \notin held
    /\ held' = held \cup {1}
    /\ UNCHANGED << heap, regs, last, built, kw_written, nwrites, y, pipe_vars >>

\* x.get_config(): the caller gets a new dict.
GetConfig ==
    /\ Cardinality(held \ {0, 1}) < MaxConfigs
    /\ LET r == 2 + Cardinality(held \ {0, 1})
       IN  /\ heap' = heap @@ (r :> I2I_get_config(heap[1]))
           /\ held' = held \cup {r}
    /\ UNCHANGED << regs, last, built, kw_written, nwrites, y, pipe_vars >>

\* The caller sets a key of a dict it holds.
CallerWrite ==
    /\ nwrites < MaxWrites
    /\ \E r \in held, key \in WriteKeys, v \in Values :
         /\ heap' = [heap EXCEPT ![r] = DictUpdate(@, key :> v)]
         /\ kw_written' = (kw_written \/ r = 0)
    /\ nwrites' = nwrites + 1
    /\ UNCHANGED << regs, last, built, held, y, pipe_vars >>

\* x is described and a second model is constructed from the description:
\* y = I2IBaseModel(x.get_kwargs(), config["i2i_scale"], config["i2i_offset"])
\* with config = x.get_config(). y.of keeps what x was at that moment.
Reconstruct ==
    /\ y = << >>
    /\ LET config == I2I_get_config(heap[1])
           new == I2I_init(heap[0], config["i2i_scale"], config["i2i_offset"])
       IN  y' = [kwargs |-> new.kwargs, attrs |-> new.attrs,
                 of |-> [kwargs |-> heap[0], attrs |-> heap[1]]]
    /\ UNCHANGED << heap, regs, last, built, held, kw_written, nwrites, pipe_vars >>

NextModel ==
    \/ RegisterKwargs
    \/ GetKwargs
    \/ GetConfig
    \/ CallerWrite
    \/ Reconstruct

SpecModel == InitModel /\ [][NextModel]_vars

\* ------------------------------------------------------------- claims
Terminal == pc \in {"done", "raised"}
Elems(s) == {s[i] : i \in 1..Len(s)}
Increasing(s) == \A i, j \in 1..Len(s) : i < j => s[i] < s[j]

\* The files whose save task failed, the files that failed at all, and the
\* failures reported: by the loader, or by the exception convert_files raises.
SaveFailed == {futures[t] : t \in failed}
Failed == decode_failed \cup SaveFailed
Reported == decode_failed \cup (IF exc.file # 0 THEN {exc.file} ELSE {})
SavedOk(j) == \E t \in 1..Len(futures) : futures[t] = j /\ TaskState(t) = "done"

\* C1: in batch mode, when exactly one file fails to decode or to be written
\* (and inference fails for none), then once convert_files has finished every
\* other file has been converted and written, and the one failure reported
\* is that file's.
C1_PartialFailure ==
    (InBatch /\ Terminal /\ exc.type # "infer" /\ Cardinality(Failed) = 1) =>
        /\ \A j \in (1..Len(Files)) \ Failed :
             /\ j \in Elems(convert_calls)
             /\ SavedOk(j)
             /\ OutputFilename(j) \in Written
        /\ Reported = Failed

\* C1 witness: a batch of three files has finished, the write of the second
\* failed and the two others are written.
C1_Witness ==
    /\ InBatch /\ pc = "raised" /\ Len(Files) = 3
    /\ SaveFailed = {2} /\ decode_failed = {}
    /\ SavedOk(1) /\ SavedOk(3)

\* C2: when two or more save tasks have failed (and inference failed for
\* none), every one of the failures is surfaced to the caller of
\* convert_files.
C2_AllErrorsSurfaced ==
    (InBatch /\ Terminal /\ exc.type # "infer" /\ Cardinality(SaveFailed) >= 2) =>
        SaveFailed \subseteq Reported

\* C3: when control has left convert_files, by return or by an exception,
\* every submitted save task has completed.
C3_Drained ==
    (InBatch /\ Terminal) => \A t \in 1..Len(futures) : TaskState(t) \in {"done", "error"}

\* C3 witness: ctx.convert raised in the middle of the loop, after tasks had
\* been submitted, and convert_files has propagated the exception.
C3_Witness ==
    /\ InBatch /\ pc = "raised" /\ exc.type = "infer"
    /\ Len(futures) >= 1 /\ exc.file < Len(Files)

\* C4: no two save tasks running at the same time write the same output file.
C4_NoSameFileConcurrent ==
    \A t, u \in 1..Len(futures) :
        (t # u /\ TaskState(t) = "running" /\ TaskState(u) = "running")
            => OutputFilename(futures[t]) # OutputFilename(futures[u])

\* C6: when main raises the unrecognized-extension error, no model has been
\* loaded, no image decoded, no inference run and no file written.
C6_ConfigErrorFirst ==
    (pc = "raised" /\ exc.type = "ValueError") =>
        /\ model_loads = 0
        /\ loads = 0
        /\ convert_calls = << >>
        /\ Written = {}

\* The conversion the claim expects for the input.
ExpectedCall ==
    IF isdir THEN "convert_files"
    ELSE IF splitext(args.input)[2] \in {<<".", "t", "x", "t">>, <<".", "c", "s", "v">>}
    THEN "convert_files"
    ELSE "convert_file"

\* C9: whatever the input, when main has finished the model was loaded once,
\* before the conversion, and exactly one conversion was called, once: the
\* one of the input's mode, and for a list file on one path per row, the
\* row's first column, in row order.
C9_ModeSelection ==
    /\ Len(calls) >= 1 => model_loads = 1
    /\ Terminal =>
         /\ model_loads = 1
         /\ calls = << ExpectedCall >>
         /\ (~isdir /\ ExpectedCall = "convert_files") =>
              /\ Len(Files) = Len(rows)
              /\ \A i \in 1..Len(rows) : Files[i] = rows[i][1]

\* C10: in convert_files ctx.convert runs on the main thread only, one call
\* at a time, each yielded image once and in the loader's order; the save
\* tasks are submitted in that order, one for every image whose ctx.convert
\* returned, and only they run in the pool.
C10_SingleThreadedInference ==
    InBatch =>
        /\ Increasing(convert_calls)
        /\ Elems(convert_calls) \cup Elems(queue) = (1..loads) \ decode_failed
        /\ \A c \in Elems(convert_calls), q \in Elems(queue) : c < q
        /\ Len(futures) <= Len(convert_calls)
        /\ \A t \in 1..Len(futures) : futures[t] = convert_calls[t]
        /\ \A t \in running : t \in 1..Len(futures)
        /\ Len(convert_calls) - Len(futures)
             = (IF pc = "convert" \/ exc.type = "infer" THEN 1 ELSE 0)
        /\ pc = "convert" => cur = convert_calls[Len(convert_calls)]
        /\ pc # "convert" => cur = 0

\* C10 witness: the save of an earlier file runs in the pool while ctx.convert
\* runs on a later one.
C10_Witness ==
    /\ InBatch /\ pc = "convert"
    /\ \E t \in running : futures[t] < cur

\* The loader's put is blocked: files remain and the queue is full.
Blocked == InBatch /\ loads < Len(Files) /\ Len(queue) >= max_queue_size

PcRank ==
    CASE pc = "main" -> 0 [] pc = "select" -> 1
      [] pc \in {"loop", "convert"} -> 2
      [] pc = "join" -> 3 [] pc = "exit" -> 4
      [] OTHER -> 5

\* What has been done so far; every step of the pipeline adds to it.
Rank ==
    PcRank + model_loads + Len(calls) + loads + Len(convert_calls)
        + Len(futures) + k + 2 * started - Cardinality(running)

\* C5: the loader's queue never holds more than 128 decoded images, however
\* many files there are; a loader blocked on the full queue is unblocked by
\* the main thread, which can then take its next step; the pipeline is never
\* stuck before it has finished, every step of it is progress, and when
\* convert_files returns ctx.convert has been called for every file.
C5_Backpressure ==
    /\ [](/\ Len(queue) <= 128
          /\ Blocked => (pc \in {"loop", "convert"} /\ ENABLED (LoopNext \/ ConvertEnd))
          /\ ~Terminal => ENABLED NextBatch
          /\ pc = "done" => convert_calls = [i \in 1..Len(Files) |-> i])
    /\ [][Rank' > Rank]_vars

\* C5 witness: the queue holds 128 images, the loader has a file left and
\* waits.
C5_Witness == Blocked /\ Len(queue) = 128

\* C7: as long as no caller has written through the dict get_kwargs returned,
\* the model's kwargs have no key "self", and their keys are exactly the other
\* names registered so far, each with the value of its latest registration.
C7_NoSelfParam ==
    ~kw_written =>
        /\ "self" \notin DOMAIN heap[0]
        /\ DOMAIN heap[0] = DOMAIN last \ {"self"}
        /\ \A n \in DOMAIN heap[0] : heap[0][n] = last[n]

\* C7 witness: after the construction a name was registered again with
\* another value, and "self" was among the names registered.
C7_Witness ==
    /\ regs = 2 /\ ~kw_written
    /\ "self" \in DOMAIN last
    /\ \E n \in DOMAIN built.kwargs \ {"self"} : heap[0][n] # built.kwargs[n]

\* The constructor's keyword arguments without "self".
BuiltParams == [n \in DOMAIN built.kwargs \ {"self"} |-> built.kwargs[n]]

\* C8: a model built with (kwargs, scale, offset) and not changed since
\* describes itself by exactly those kwargs minus "self" and by that scale
\* and offset; whatever the caller writes into the dicts get_config returned,
\* the model's scale and offset stay what they were, and get_config says so;
\* a second model constructed from the description has the scale and the
\* offset the first had when it was described, and its params (as long as no
\* caller has written through the dict get_kwargs returned).
C8_RoundTrip ==
    /\ (regs = 1 /\ ~kw_written) => heap[0] = BuiltParams
    /\ heap[1] = [i2i_scale |-> built.scale, i2i_offset |-> built.offset]
    /\ I2I_get_config(heap[1]) = [i2i_scale |-> built.scale, i2i_offset |-> built.offset]
    /\ y # << >> =>
         /\ ~kw_written => y.kwargs = y.of.kwargs
         /\ y.attrs = y.of.attrs

\* C8 witness: the caller changed i2i_scale in a dict get_config returned, and
\* a second model has been constructed from the description.
C8_Witness ==
    /\ y # << >>
    /\ \E r \in held \ {0} : heap[r]["i2i_scale"] # built.scale
    /\ built.scale # built.offset

====
